---- MODULE Spec2Model ----
(***************************************************************************)
(* Model of tap_freshdesk/__init__.py: the request executor (request),     *)
(* the paginator (gen_request), the watermark store (get_start,            *)
(* utils.update_state) and the sync orchestrator (sync_tickets,            *)
(* sync_tickets_by_filter, sync_time_filtered, do_sync).                   *)
(*                                                                         *)
(* Timestamps are ISO-8601 strings compared with >= in the source; they    *)
(* are modelled as naturals with the same order, 0 being the epoch         *)
(* 1970-01-01T00:00:00Z.                                                   *)
(***************************************************************************)
EXTENDS Naturals, Integers, Sequences, FiniteSets, TLC

VARIABLES
    \* ---- request executor (one call of request(url, params)) ----
    reqArgs,        \* the (url, params) the caller passed
    reqFrames,      \* one entry per active invocation of the decorated request: its backoff try number
    reqResult,      \* "idle" | "pending" | "returned" | "raised"
    reqError,       \* the response (or connection failure) the raised exception carries
    reqLast,        \* the outcome of the most recent session.send
    reqSent,        \* number of session.send calls made by this call
    reqFailed,      \* sends that ended in a transport error or a 5xx status
    reqThrottled,   \* sends answered with a Retry-After header
    reqSince,       \* failing sends since the last throttled response
    reqSentArgs     \* the (url, params) of every send so far

varsRequest == <<reqArgs, reqFrames, reqResult, reqError, reqLast, reqSent,
                 reqFailed, reqThrottled, reqSince, reqSentArgs>>

VARIABLES
    \* ---- paginator (one call of gen_request(url, params)) ----
    pgData,         \* the records the endpoint holds, in the order the API serves them
    pgState,        \* "request" | "rows" | "done"
    pgPage,         \* params['page']
    pgBuf,          \* data: the page being iterated
    pgPos,          \* rows of data already yielded
    pgYielded,      \* every row yielded so far, in order
    pgRequests      \* the page number of every request made so far, in order

varsPaginate == <<pgData, pgState, pgPage, pgBuf, pgPos, pgYielded, pgRequests>>

VARIABLES
    \* ---- one call of transform_dict(d, key_key, value_key, force_str) ----
    tdIn,           \* d: the items of the dict, in iteration order
    tdKeyKey,       \* key_key
    tdForce,        \* force_str
    tdOut,          \* rtn
    tdState         \* "idle" | "loop" | "done"

varsTransform == <<tdIn, tdKeyKey, tdForce, tdOut, tdState>>

VARIABLES
    \* ---- one process of the tap (main_impl, do_sync) ----
    selected_streams,   \* the entities of CONFIG["streams"] with selected = true
    State,              \* STATE, the in-memory watermarks: namespace -> timestamp
    persisted,          \* the state file: the last singer.write_state, or the file the process was given
    api,                \* the records the API holds, fixed once an endpoint has been listed
    emitted,            \* the records written by singer.write_record in this process
    subErrors,          \* the sub-resource fetches of this process that raised an HTTPError
    faults,             \* requests that ended in an exception so far
    status,             \* "running" | "completed" | "exit1" | "raised" | "killed"
    pc,                 \* the statement the process is at
    ent,                \* position in do_sync's chain of entities
    pass,               \* ticket pass (1 unfiltered, 2 deleted, 3 spam), 0 in flat sync
    start,              \* the start captured by the entity sync or ticket pass in progress
    page,               \* params['page'] of the listing generator
    buf,                \* rows of the current listing page
    pos,                \* rows of buf already taken
    row,                \* the row being processed
    subpage,            \* params['page'] of the sub-resource generator
    \* ---- history, for statements about a run and the run that follows it ----
    loaded,             \* the state this process was started with
    resumed,            \* TRUE in a process started from the state an earlier one left
    prevStatus,         \* how the earlier process ended
    prevNs,             \* the namespace it was syncing when it ended
    prevStart,          \* the start that sync had captured
    prevEmitted,        \* the records it had emitted
    \* ---- what this process has done, for statements about its course ----
    failure,            \* the status code of the HTTPError that ended the process, 0 if none
    written,            \* number of singer.write_state calls
    synced              \* the namespaces whose sync was started, in order

varsControl == <<pc, ent, pass, start, page, buf, pos, row, subpage>>
varsHistory == <<loaded, resumed, prevStatus, prevNs, prevStart, prevEmitted>>
varsCourse == <<failure, written, synced>>
varsSync == <<selected_streams, State, persisted, api, emitted, subErrors, faults, status,
              varsControl, varsHistory, varsCourse>>

vars == <<varsRequest, varsPaginate, varsTransform, varsSync>>

(***************************************************************************)
(* Request executor                                                        *)
(***************************************************************************)
max_tries == 5

\* most throttled (Retry-After) responses the server gives to one call
MaxThrottled == 2

Statuses == {200, 401, 403, 404, 429, 500}

\* what session.send produces: a response, or no response at all
NoResponse == [status |-> 0, retry_after |-> FALSE]
Responses == [status : Statuses, retry_after : BOOLEAN] \cup {NoResponse}

IsThrottle(resp) == resp.retry_after
Is4xx(resp) == resp.status >= 400 /\ resp.status < 500
\* a transport-level failure or a 5xx answer without Retry-After
IsFailure(resp) == ~resp.retry_after /\ (resp = NoResponse \/ resp.status >= 500)

giveup_never(e) == FALSE
\* giveup=lambda e: e.response is not None and 400 <= e.response.status_code < 500
giveup(e) == e # NoResponse /\ 400 <= e.status /\ e.status < 500

\* resp.raise_for_status(): HTTPError for 4xx and 5xx
raise_for_status(resp) == resp.status >= 400

\* backoff.on_exception around request: exception e left the body of the
\* innermost invocation.  Give up or budget spent: the exception leaves that
\* invocation and so leaves the body of its caller (line 58), whose own
\* decorator handles it in turn; otherwise the invocation tries again.
RECURSIVE on_exception(_, _)
on_exception(frames, e) ==
    IF frames = <<>> THEN <<>>
    ELSE LET n == Len(frames) IN
         IF giveup(e) \/ frames[n] = max_tries
         THEN on_exception(SubSeq(frames, 1, n - 1), e)
         ELSE [frames EXCEPT ![n] = @ + 1]

attempt_status_first(frames, resp) ==
    IF resp = NoResponse
    THEN LET f == on_exception(frames, resp) IN
         [frames |-> f, result |-> IF f = <<>> THEN "raised" ELSE "pending"]
    ELSE IF raise_for_status(resp)
    THEN LET f == on_exception(frames, resp) IN
         [frames |-> f, result |-> IF f = <<>> THEN "raised" ELSE "pending"]
    ELSE IF resp.retry_after
    THEN [frames |-> Append(frames, 1), result |-> "pending"]
    ELSE [frames |-> <<>>, result |-> "returned"]
attempt_throttle_counts(frames, resp) ==
    IF resp = NoResponse
    THEN LET f == on_exception(frames, resp) IN
         [frames |-> f, result |-> IF f = <<>> THEN "raised" ELSE "pending"]
    ELSE IF resp.retry_after
    THEN LET f == on_exception(frames, [status |-> 500, retry_after |-> FALSE]) IN
         [frames |-> f, result |-> IF f = <<>> THEN "raised" ELSE "pending"]
    ELSE IF raise_for_status(resp)
    THEN LET f == on_exception(frames, resp) IN
         [frames |-> f, result |-> IF f = <<>> THEN "raised" ELSE "pending"]
    ELSE [frames |-> <<>>, result |-> "returned"]

\* one pass through the body of request (lines 44-62) in the innermost
\* invocation, session.send answering resp
attempt(frames, resp) ==
    IF resp = NoResponse
    THEN LET f == on_exception(frames, resp) IN
         [frames |-> f, result |-> IF f = <<>> THEN "raised" ELSE "pending"]
    ELSE IF resp.retry_after
    THEN \* sleep, then return request(url, params): a new decorated invocation
         [frames |-> Append(frames, 1), result |-> "pending"]
    ELSE IF raise_for_status(resp)
    THEN LET f == on_exception(frames, resp) IN
         [frames |-> f, result |-> IF f = <<>> THEN "raised" ELSE "pending"]
    ELSE \* return resp, through every enclosing "return request(...)"
         [frames |-> <<>>, result |-> "returned"]

Urls == {"tickets", "contacts"}
Params == {"none", "page1"}

RequestCall ==
    /\ reqResult = "idle"
    /\ \E u \in Urls, p \in Params : reqArgs' = <<u, p>>
    /\ reqFrames' = <<1>>
    /\ reqResult' = "pending"
    /\ UNCHANGED <<reqError, reqLast, reqSent, reqFailed, reqThrottled, reqSince, reqSentArgs>>

RequestSend ==
    /\ reqResult = "pending"
    /\ \E resp \in Responses :
        /\ IsThrottle(resp) => reqThrottled < MaxThrottled
        /\ LET a == attempt(reqFrames, resp) IN
            /\ reqFrames' = a.frames
            /\ reqResult' = a.result
            /\ reqError' = IF a.result = "raised" THEN resp ELSE reqError
        /\ reqLast' = resp
        /\ reqSent' = reqSent + 1
        /\ reqSentArgs' = reqSentArgs \cup {reqArgs}
        /\ reqFailed' = IF IsFailure(resp) THEN reqFailed + 1 ELSE reqFailed
        /\ reqThrottled' = IF IsThrottle(resp) THEN reqThrottled + 1 ELSE reqThrottled
        /\ reqSince' = IF IsThrottle(resp) THEN 0
                       ELSE IF IsFailure(resp) THEN reqSince + 1 ELSE reqSince
    /\ UNCHANGED reqArgs

IdleRequest ==
    /\ reqArgs = <<"", "">>
    /\ reqFrames = <<>>
    /\ reqResult = "idle"
    /\ reqError = NoResponse
    /\ reqLast = NoResponse
    /\ reqSent = 0
    /\ reqFailed = 0
    /\ reqThrottled = 0
    /\ reqSince = 0
    /\ reqSentArgs = {}

(***************************************************************************)
(* Paginator                                                               *)
(***************************************************************************)
PER_PAGE == 100

\* most records one endpoint holds in the paginator's specification
MaxPaged == 250

Min(a, b) == IF a <= b THEN a ELSE b

\* the API's answer to ?per_page=100&page=n over the records it holds
PageOf(data, n) ==
    SubSeq(data, (n - 1) * PER_PAGE + 1, Min(n * PER_PAGE, Len(data)))

more_pages_nonempty(data) == Len(data) > 0
\* if len(data) == PER_PAGE: page += 1, else: break
more_pages(data) == Len(data) = PER_PAGE

\* data = request(url, params).json()
PaginateRequest ==
    /\ pgState = "request"
    /\ pgBuf' = PageOf(pgData, pgPage)
    /\ pgRequests' = Append(pgRequests, pgPage)
    /\ pgPos' = 0
    /\ pgState' = "rows"
    /\ UNCHANGED <<pgData, pgPage, pgYielded>>

\* for row in data: yield row
PaginateYield ==
    /\ pgState = "rows"
    /\ pgPos < Len(pgBuf)
    /\ pgYielded' = Append(pgYielded, pgBuf[pgPos + 1])
    /\ pgPos' = pgPos + 1
    /\ UNCHANGED <<pgData, pgState, pgPage, pgBuf, pgRequests>>

PaginateNext ==
    /\ pgState = "rows"
    /\ pgPos = Len(pgBuf)
    /\ IF more_pages(pgBuf)
       THEN pgPage' = pgPage + 1 /\ pgState' = "request"
       ELSE pgPage' = pgPage /\ pgState' = "done"
    /\ UNCHANGED <<pgData, pgBuf, pgPos, pgYielded, pgRequests>>

IdlePaginate ==
    /\ pgData = <<>>
    /\ pgState = "done"
    /\ pgPage = 1
    /\ pgBuf = <<>>
    /\ pgPos = 0
    /\ pgYielded = <<>>
    /\ pgRequests = <<>>

(***************************************************************************)
(* transform_dict                                                          *)
(*                                                                         *)
(* A string is a sequence of characters; a value is a boolean or a string, *)
(* held with its Python type and the text str() gives for it.              *)
(***************************************************************************)
\* most custom fields in one dict
MaxFields == 2

FieldNames == {"cf_color", "cf_size"}

Bool(b) == [type |-> "bool", text |-> IF b THEN <<"T", "r", "u", "e">>
                                       ELSE <<"F", "a", "l", "s", "e">>]
Str(t) == [type |-> "str", text |-> t]

Values ==
    {Bool(TRUE), Bool(FALSE), Str(<<"1", "0">>), Str(<<"r", "e", "d">>), Str(<<"R", "e", "d">>)}

\* str.lower() on one character
LowerChar(c) ==
    CASE c = "T" -> "t"
      [] c = "F" -> "f"
      [] c = "R" -> "r"
      [] OTHER -> c

\* str(v).lower()
str_lower(v) == Str([i \in 1..Len(v.text) |-> LowerChar(v.text[i])])

\* {key_key: k, value_key: v}
Item(key_key, k, v) == [key_field |-> key_key, key |-> k, value_field |-> "value", value |-> v]

\* the dicts passed: at most MaxFields items, no key twice
Dicts ==
    {d \in UNION {[1..n -> FieldNames \X Values] : n \in 0..MaxFields} :
        \A i, j \in 1..Len(d) : d[i][1] = d[j][1] => i = j}

IdleTransform ==
    /\ tdIn = <<>>
    /\ tdKeyKey = "name"
    /\ tdForce = FALSE
    /\ tdOut = <<>>
    /\ tdState = "idle"

\* for k, v in d.items(): if force_str: v = str(v).lower(); rtn.append(...)
TransformItem ==
    /\ tdState = "loop"
    /\ Len(tdOut) < Len(tdIn)
    /\ LET k == tdIn[Len(tdOut) + 1][1]
           v == tdIn[Len(tdOut) + 1][2]
       IN tdOut' = Append(tdOut, Item(tdKeyKey, k, IF tdForce THEN str_lower(v) ELSE v))
    /\ UNCHANGED <<tdIn, tdKeyKey, tdForce, tdState>>

\* return rtn
TransformReturn ==
    /\ tdState = "loop"
    /\ Len(tdOut) = Len(tdIn)
    /\ tdState' = "done"
    /\ UNCHANGED <<tdIn, tdKeyKey, tdForce, tdOut>>

(***************************************************************************)
(* Watermark store                                                         *)
(***************************************************************************)
\* "1970-01-01T00:00:00Z"
Epoch == 0

\* CONFIG['start_date']
start_date == 1

\* latest timestamp a record or a stored watermark carries
MaxTime == 1

Times == Epoch..MaxTime

get_start_config_only(S, entity) ==
    IF entity \in {"contacts", "companies", "agents"} THEN Epoch ELSE start_date
get_start(S, entity) ==
    IF entity \notin DOMAIN S
    THEN IF entity \in {"contacts", "companies", "agents"} THEN Epoch ELSE start_date
    ELSE S[entity]

\* utils.update_state(STATE, entity, dt): the stored watermark of the
\* namespace is overwritten with dt
update_state(S, entity, dt) ==
    [n \in DOMAIN S \cup {entity} |-> IF n = entity THEN dt ELSE S[n]]

(***************************************************************************)
(* Sync orchestrator                                                       *)
(***************************************************************************)
Order_contacts_first == <<"contacts", "tickets", "agents", "roles", "groups", "companies">>
\* the order of do_sync's chain
Order == <<"tickets", "contacts", "agents", "roles", "groups", "companies">>

\* the passes of sync_tickets: no filter, "deleted", "spam"
Filters == <<"", "deleted", "spam">>

\* state_entity = endpoint, or endpoint + "_" + predefined_filter
state_entity(filter) ==
    CASE filter = "" -> "tickets"
      [] filter = "deleted" -> "tickets_deleted"
      [] filter = "spam" -> "tickets_spam"

TicketNamespaces == {state_entity(Filters[i]) : i \in 1..3}
NamespacesOf(entity) == IF entity = "tickets" THEN TicketNamespaces ELSE {entity}

SubResources == {"conversations", "satisfaction_ratings", "time_entries"}

\* most entities selected in one configuration
MaxSelected == 1

\* most records the API holds over all the endpoints a run lists
MaxRecords == 3

\* most watermarks in the state file the first process is given
MaxStored == 1

\* most requests that end in an exception
MaxErrors == 1

IsTickets == ent \in 1..6 /\ Order[ent] = "tickets"

\* the bookmark namespace of the sync in progress
Ns == IF IsTickets THEN state_entity(Filters[pass]) ELSE Order[ent]

\* the stream a top-level record is written to: singer.write_record(endpoint / entity, ...)
Stream == Order[ent]

ListKey(ns) == <<ns, 0, "list">>
SubKey(ns, i, kind) == <<ns, i, kind>>

\* row[bookmark_property] of row i of the listing of ns
Bookmark(ns, i) == api[ListKey(ns)][i]

\* an emitted record: its stream, the namespace of the sync that wrote it,
\* the row of the listing, the position in its sub-resource (0 for the row
\* itself), its updated_at
Rec(stream, ns, i, j, bm) == <<stream, ns, i, j, bm>>
RecStream(r) == r[1]
RecNs(r) == r[2]
RecRow(r) == r[3]
RecSub(r) == r[4]
RecBm(r) == r[5]
IsTopLevel(r) == RecSub(r) = 0

RECURSIVE SumLen(_, _)
SumLen(f, keys) ==
    IF keys = {} THEN 0
    ELSE LET k == CHOOSE x \in keys : TRUE IN Len(f[k]) + SumLen(f, keys \ {k})

\* records the API is already known to hold
Used == SumLen(api, DOMAIN api)

IsSorted(s) == \A i \in 1..(Len(s) - 1) : s[i] <= s[i + 1]

SeqsUpTo(n) == UNION {[1..k -> Times] : k \in 0..n}

\* what an endpoint can hold when it is listed for the first time
Candidates == SeqsUpTo(MaxRecords - Used)

Indices(data) == [i \in 1..Len(data) |-> i]

\* the API's 'updated_since' filter on the ticket listing
updated_since(bm, since) == bm >= since

\* the rows the API serves for a listing, as positions in the endpoint's
\* data: tickets are filtered by updated_since and come in ascending
\* updated_at order (order_by, order_type); a flat entity is sent no
\* parameter and comes whole, in the API's own order
Served(tickets, data, since) ==
    IF tickets
    THEN SelectSeq(Indices(data), LAMBDA i : updated_since(data[i], since))
    ELSE Indices(data)

passes_filter_strict(bm, since) == bm > since
passes_filter_always(bm, since) == TRUE
\* if row[bookmark_property] >= start
passes_filter(bm, since) == bm >= since

recoverable_any_404(kind, code) == code = 403 \/ code = 404
recoverable_404_only(kind, code) == kind = "time_entries" /\ code = 404
\* the except HTTPError clauses of the three sub-resource blocks
recoverable(kind, code) ==
    \/ code = 403
    \/ kind = "time_entries" /\ code = 404

step_after_repeat(step, entity) ==
    CASE step = "row" -> IF entity = "tickets" THEN "conversations" ELSE "update_state"
      [] step = "conversations" -> "satisfaction_ratings"
      [] step = "satisfaction_ratings" -> "time_entries"
      [] step = "time_entries" -> "update_state"
      [] step = "update_state" -> "write_record"
      [] step = "write_record" -> "write_record"
      [] step = "write_state" -> IF entity = "tickets" THEN "row" ELSE "do_sync"
step_after_batched(step, entity) ==
    CASE step = "row" -> IF entity = "tickets" THEN "conversations" ELSE "update_state"
      [] step = "conversations" -> "satisfaction_ratings"
      [] step = "satisfaction_ratings" -> "time_entries"
      [] step = "time_entries" -> "update_state"
      [] step = "update_state" -> "write_record"
      [] step = "write_record" -> "row"
      [] step = "write_state" -> IF entity = "tickets" THEN "row" ELSE "do_sync"
step_after_per_record(step, entity) ==
    CASE step = "row" -> IF entity = "tickets" THEN "conversations" ELSE "update_state"
      [] step = "conversations" -> "satisfaction_ratings"
      [] step = "satisfaction_ratings" -> "time_entries"
      [] step = "time_entries" -> "update_state"
      [] step = "update_state" -> "write_record"
      [] step = "write_record" -> "write_state"
      [] step = "write_state" -> "row"
step_after_emit_first(step, entity) ==
    CASE step = "row" -> IF entity = "tickets" THEN "conversations" ELSE "write_record"
      [] step = "conversations" -> "satisfaction_ratings"
      [] step = "satisfaction_ratings" -> "time_entries"
      [] step = "time_entries" -> "write_record"
      [] step = "write_record" -> "update_state"
      [] step = "update_state" -> IF entity = "tickets" THEN "write_state" ELSE "row"
      [] step = "write_state" -> IF entity = "tickets" THEN "row" ELSE "do_sync"
\* the statement that follows a statement in the body of the row loop of
\* sync_tickets_by_filter (tickets) and sync_time_filtered (flat entities)
step_after(step, entity) ==
    CASE step = "row" -> IF entity = "tickets" THEN "conversations" ELSE "update_state"
      [] step = "conversations" -> "satisfaction_ratings"
      [] step = "satisfaction_ratings" -> "time_entries"
      [] step = "time_entries" -> "update_state"
      [] step = "update_state" -> "write_record"
      [] step = "write_record" -> IF entity = "tickets" THEN "write_state" ELSE "row"
      [] step = "write_state" -> IF entity = "tickets" THEN "row" ELSE "do_sync"

(***************************************************************************)
(* The request executor as the orchestrator sees it: the outcome of one    *)
(* call whose sends the server answers with the responses of a script.     *)
(***************************************************************************)
Ok == [status |-> 200, retry_after |-> FALSE]
Throttle == [status |-> 429, retry_after |-> TRUE]
Http(code) == [status |-> code, retry_after |-> FALSE]

ServerScripts ==
    { <<Ok>>,
      <<Throttle, Ok>>,
      <<Http(500), Ok>>,
      <<Http(401)>>,
      <<Http(403)>>,
      <<Throttle, Http(403)>>,
      <<Http(404)>>,
      <<Http(500), Http(500), Http(500), Http(500), Http(500)>>,
      <<NoResponse, NoResponse, NoResponse, NoResponse, NoResponse>> }

RECURSIVE run_request(_, _)
run_request(frames, script) ==
    IF script = <<>> THEN [result |-> "pending", resp |-> NoResponse]
    ELSE LET a == attempt(frames, Head(script)) IN
         IF a.result # "pending"
         THEN [result |-> a.result, resp |-> Head(script)]
         ELSE run_request(a.frames, Tail(script))

\* request(url, params) against a server that follows the script
request(script) == run_request(<<1>>, script)

\* the outcomes of a call: the response, or the exception raised
Outcomes == {request(sc) : sc \in ServerScripts} \ {[result |-> "pending", resp |-> NoResponse]}

IsHTTPError(out) == out.result = "raised" /\ out.resp # NoResponse

EmptyFn == [x \in {} |-> 0]

PartialFns(D) == UNION {[d -> Times] : d \in SUBSET D}

Reset ==
    /\ pc = "do_sync"
    /\ ent = 1
    /\ pass = 0
    /\ start = 0
    /\ page = 1
    /\ buf = <<>>
    /\ pos = 0
    /\ row = 0
    /\ subpage = 1

\* main_impl: CONFIG.update(config), STATE.update(state), then do_sync
InitSync ==
    /\ selected_streams \in {s \in SUBSET {Order[i] : i \in 1..6} : Cardinality(s) <= MaxSelected}
    /\ State \in {f \in PartialFns(UNION {NamespacesOf(e) : e \in selected_streams}) :
                      Cardinality(DOMAIN f) <= MaxStored}
    /\ persisted = State
    /\ loaded = State
    /\ api = EmptyFn
    /\ emitted = {}
    /\ subErrors = {}
    /\ status = "running"
    /\ Reset
    /\ resumed = FALSE
    /\ prevStatus = "none"
    /\ prevNs = "none"
    /\ prevStart = 0
    /\ prevEmitted = {}
    /\ failure = 0
    /\ written = 0
    /\ synced = <<>>

IdleSync ==
    /\ selected_streams = {}
    /\ State = EmptyFn
    /\ persisted = EmptyFn
    /\ loaded = EmptyFn
    /\ api = EmptyFn
    /\ emitted = {}
    /\ subErrors = {}
    /\ faults = 0
    /\ status = "idle"
    /\ Reset
    /\ resumed = FALSE
    /\ prevStatus = "none"
    /\ prevNs = "none"
    /\ prevStart = 0
    /\ prevEmitted = {}
    /\ failure = 0
    /\ written = 0
    /\ synced = <<>>

\* the selected entities do_sync has not reached yet
Remaining == {i \in ent..6 : Order[i] \in selected_streams}

\* do_sync: the next "if <entity> in selected_streams" that holds; the
\* entity's sync starts by capturing its start (lines 147, 222)
DoSyncNext ==
    /\ status = "running"
    /\ pc = "do_sync"
    /\ Remaining # {}
    /\ LET i == CHOOSE x \in Remaining : \A y \in Remaining : x <= y
           ns == IF Order[i] = "tickets" THEN state_entity(Filters[1]) ELSE Order[i]
       IN /\ ent' = i
          /\ pass' = IF Order[i] = "tickets" THEN 1 ELSE 0
          /\ start' = get_start(State, ns)
          /\ synced' = Append(synced, ns)
    /\ page' = 1
    /\ buf' = <<>>
    /\ pos' = 0
    /\ row' = 0
    /\ subpage' = 1
    /\ pc' = "list"
    /\ UNCHANGED <<selected_streams, State, persisted, api, emitted, subErrors, faults, status,
                   varsHistory, failure, written>>

\* do_sync: no selected entity is left, "Completed sync"
DoSyncDone ==
    /\ status = "running"
    /\ pc = "do_sync"
    /\ Remaining = {}
    /\ status' = "completed"
    /\ UNCHANGED <<selected_streams, State, persisted, api, emitted, subErrors, faults,
                   varsControl, varsHistory, varsCourse>>

Raised_ignored(out) == "running"
\* an exception leaves the sync: do_sync catches HTTPError and calls
\* sys.exit(1); anything else is re-raised by main
Raised(out) == IF IsHTTPError(out) THEN "exit1" ELSE "raised"

\* e.response.status_code of the HTTPError do_sync logs
StatusCode(out) == IF IsHTTPError(out) THEN out.resp.status ELSE 0

\* the data of an endpoint: what it is known to hold, or, the first time it
\* is listed, anything the API may hold
DataOf(key, sorted) ==
    IF key \in DOMAIN api THEN {api[key]}
    ELSE {d \in Candidates : sorted => IsSorted(d)}

Learn(key, data) == IF key \in DOMAIN api THEN api ELSE api @@ (key :> data)

\* gen_request of the listing: data = request(url, params).json()
ListRequest ==
    /\ status = "running"
    /\ pc = "list"
    /\ \E out \in Outcomes :
        IF out.result = "raised"
        THEN /\ faults < MaxErrors
             /\ faults' = faults + 1
             /\ status' = Raised(out)
             /\ failure' = StatusCode(out)
             /\ UNCHANGED <<api, varsControl>>
        ELSE \E data \in DataOf(ListKey(Ns), IsTickets) :
             /\ api' = Learn(ListKey(Ns), data)
             /\ buf' = PageOf(Served(IsTickets, data, start), page)
             /\ pos' = 0
             /\ pc' = "row"
             /\ UNCHANGED <<status, faults, failure, ent, pass, start, page, row, subpage>>
    /\ UNCHANGED <<selected_streams, State, persisted, emitted, subErrors, varsHistory,
                   written, synced>>

\* the generator yields the next row of the page: a ticket goes on to its
\* sub-resources (lines 163-168), a flat record to the start filter (line 226)
NextRow ==
    /\ status = "running"
    /\ pc = "row"
    /\ pos < Len(buf)
    /\ row' = buf[pos + 1]
    /\ pos' = pos + 1
    /\ subpage' = 1
    /\ pc' = IF IsTickets \/ passes_filter(Bookmark(Ns, buf[pos + 1]), start)
             THEN step_after("row", Stream)
             ELSE "row"
    /\ UNCHANGED <<selected_streams, State, persisted, api, emitted, subErrors, faults, status,
                   ent, pass, start, page, buf, varsHistory, varsCourse>>

\* the page is used up: the next page (lines 95-96), or the generator ends
\* (line 98) and with it the ticket pass (the next pass starts, lines
\* 136-137, 147) or the loop of the flat entity (line 233 follows)
EndOfPage ==
    /\ status = "running"
    /\ pc = "row"
    /\ pos = Len(buf)
    /\ IF more_pages(buf)
       THEN /\ page' = page + 1
            /\ pc' = "list"
            /\ UNCHANGED <<ent, pass, start, buf, pos, row, subpage, synced>>
       ELSE IF IsTickets
       THEN IF pass < 3
            THEN /\ pass' = pass + 1
                 /\ start' = get_start(State, state_entity(Filters[pass + 1]))
                 /\ synced' = Append(synced, state_entity(Filters[pass + 1]))
                 /\ page' = 1
                 /\ buf' = <<>>
                 /\ pos' = 0
                 /\ row' = 0
                 /\ pc' = "list"
                 /\ UNCHANGED <<ent, subpage>>
            ELSE /\ ent' = ent + 1
                 /\ pass' = 0
                 /\ pc' = "do_sync"
                 /\ UNCHANGED <<start, page, buf, pos, row, subpage, synced>>
       ELSE /\ pc' = "write_state"
            /\ UNCHANGED <<ent, pass, start, page, buf, pos, row, subpage, synced>>
    /\ UNCHANGED <<selected_streams, State, persisted, api, emitted, subErrors, faults, status,
                   varsHistory, failure, written>>

\* one try block of the ticket loop: a page of the sub-resource is fetched
\* and its rows with updated_at >= start are written; 403 (and 404 for
\* time_entries) ends the block, any other exception leaves the sync
SubResource(kind) ==
    /\ status = "running"
    /\ pc = kind
    /\ \E out \in Outcomes :
        IF out.result = "raised"
        THEN /\ faults < MaxErrors
             /\ faults' = faults + 1
             /\ subErrors' = IF IsHTTPError(out)
                             THEN subErrors \cup {<<Ns, row, kind, out.resp.status>>}
                             ELSE subErrors
             /\ IF IsHTTPError(out) /\ recoverable(kind, out.resp.status)
                THEN /\ pc' = step_after(kind, Stream)
                     /\ subpage' = 1
                     /\ status' = status
                     /\ failure' = failure
                ELSE /\ status' = Raised(out)
                     /\ failure' = StatusCode(out)
                     /\ UNCHANGED <<pc, subpage>>
             /\ UNCHANGED <<api, emitted>>
        ELSE \E data \in DataOf(SubKey(Ns, row, kind), FALSE) :
             LET rows == PageOf(Indices(data), subpage) IN
             /\ api' = Learn(SubKey(Ns, row, kind), data)
             /\ emitted' = emitted \cup
                    {Rec(kind, Ns, row, rows[k], data[rows[k]]) :
                        k \in {x \in 1..Len(rows) : passes_filter(data[rows[x]], start)}}
             /\ IF more_pages(rows)
                THEN subpage' = subpage + 1 /\ pc' = pc
                ELSE subpage' = 1 /\ pc' = step_after(kind, Stream)
             /\ UNCHANGED <<status, subErrors, faults, failure>>
    /\ UNCHANGED <<selected_streams, State, persisted, ent, pass, start, page, buf, pos, row,
                   varsHistory, written, synced>>

SyncConversations == SubResource("conversations")
SyncSatisfactionRatings == SubResource("satisfaction_ratings")
SyncTimeEntries == SubResource("time_entries")

\* utils.update_state(STATE, state_entity, row[bookmark_property])
UpdateState ==
    /\ status = "running"
    /\ pc = "update_state"
    /\ State' = update_state(State, Ns, Bookmark(Ns, row))
    /\ pc' = step_after("update_state", Stream)
    /\ UNCHANGED <<selected_streams, persisted, api, emitted, subErrors, faults, status,
                   ent, pass, start, page, buf, pos, row, subpage, varsHistory, varsCourse>>

\* singer.write_record(endpoint, row, ...)
WriteRecord ==
    /\ status = "running"
    /\ pc = "write_record"
    /\ emitted' = emitted \cup {Rec(Stream, Ns, row, 0, Bookmark(Ns, row))}
    /\ pc' = step_after("write_record", Stream)
    /\ UNCHANGED <<selected_streams, State, persisted, api, subErrors, faults, status,
                   ent, pass, start, page, buf, pos, row, subpage, varsHistory, varsCourse>>

\* singer.write_state(STATE): after every ticket, and once after the loop
\* of a flat entity, which ends the entity
WriteState ==
    /\ status = "running"
    /\ pc = "write_state"
    /\ persisted' = State
    /\ written' = written + 1
    /\ pc' = step_after("write_state", Stream)
    /\ ent' = IF step_after("write_state", Stream) = "do_sync" THEN ent + 1 ELSE ent
    /\ UNCHANGED <<selected_streams, State, api, emitted, subErrors, faults, status,
                   pass, start, page, buf, pos, row, subpage, varsHistory, failure, synced>>

\* the process is terminated from outside
Kill ==
    /\ status = "running"
    /\ status' = "killed"
    /\ UNCHANGED <<selected_streams, State, persisted, api, emitted, subErrors, faults,
                   varsControl, varsHistory, varsCourse>>

\* the tap is run again with the state file the ended process left
Restart ==
    /\ status \in {"completed", "exit1", "raised", "killed"}
    /\ ~resumed
    /\ resumed' = TRUE
    /\ prevStatus' = status
    /\ prevNs' = IF pc = "do_sync" THEN "none" ELSE Ns
    /\ prevStart' = start
    /\ prevEmitted' = emitted
    /\ State' = persisted
    /\ loaded' = persisted
    /\ emitted' = {}
    /\ subErrors' = {}
    /\ status' = "running"
    /\ pc' = "do_sync"
    /\ ent' = 1
    /\ pass' = 0
    /\ start' = 0
    /\ page' = 1
    /\ buf' = <<>>
    /\ pos' = 0
    /\ row' = 0
    /\ subpage' = 1
    /\ failure' = 0
    /\ written' = 0
    /\ synced' = <<>>
    /\ UNCHANGED <<selected_streams, persisted, api, faults>>

(***************************************************************************)
(* Specification of one run of the tap: any configuration, any state       *)
(* file, any data and any outcome of every request.                        *)
(***************************************************************************)
Init == IdleRequest /\ IdlePaginate /\ IdleTransform /\ InitSync /\ faults = 0

Next ==
    \/ DoSyncNext /\ UNCHANGED <<varsRequest, varsPaginate, varsTransform>>
    \/ DoSyncDone /\ UNCHANGED <<varsRequest, varsPaginate, varsTransform>>
    \/ ListRequest /\ UNCHANGED <<varsRequest, varsPaginate, varsTransform>>
    \/ NextRow /\ UNCHANGED <<varsRequest, varsPaginate, varsTransform>>
    \/ EndOfPage /\ UNCHANGED <<varsRequest, varsPaginate, varsTransform>>
    \/ SyncConversations /\ UNCHANGED <<varsRequest, varsPaginate, varsTransform>>
    \/ SyncSatisfactionRatings /\ UNCHANGED <<varsRequest, varsPaginate, varsTransform>>
    \/ SyncTimeEntries /\ UNCHANGED <<varsRequest, varsPaginate, varsTransform>>
    \/ UpdateState /\ UNCHANGED <<varsRequest, varsPaginate, varsTransform>>
    \/ WriteRecord /\ UNCHANGED <<varsRequest, varsPaginate, varsTransform>>
    \/ WriteState /\ UNCHANGED <<varsRequest, varsPaginate, varsTransform>>

Spec == Init /\ [][Next]_vars

(***************************************************************************)
(* Specification of a run that may be terminated at any point, followed by *)
(* a second run started from the state file the first one left, against    *)
(* the same data.                                                          *)
(***************************************************************************)
NextResume ==
    \/ Next
    \/ Kill /\ UNCHANGED <<varsRequest, varsPaginate, varsTransform>>
    \/ Restart /\ UNCHANGED <<varsRequest, varsPaginate, varsTransform>>

\* the server answers every request of both runs: the first run ends by
\* completing or by being terminated
InitResume == IdleRequest /\ IdlePaginate /\ IdleTransform /\ InitSync /\ faults = MaxErrors

SpecResume == InitResume /\ [][NextResume]_vars

(***************************************************************************)
(* Claims about the sync orchestrator                                      *)
(***************************************************************************)
\* the stream the rows of a listing are written to
StreamOf(ns) == IF ns \in TicketNamespaces THEN "tickets" ELSE ns

\* the record written for row i of the listing of ns
TopRec(ns, i) == Rec(StreamOf(ns), ns, i, 0, Bookmark(ns, i))

\* C1: whenever the state is persisted, the persisted watermark of every
\* namespace is >= the bookmark of every record emitted under that namespace
\* so far in the run (the claim adds: and <= the largest bookmark in the API
\* data of the namespace).
C1_PersistedCoversEmitted ==
    [][pc = "write_state" =>
         \A r \in emitted' :
             IsTopLevel(r) =>
                 /\ RecNs(r) \in DOMAIN persisted'
                 /\ persisted'[RecNs(r)] >= RecBm(r)]_vars

\* C3: within a run no step replaces the in-memory watermark of a namespace
\* with a smaller timestamp.
C3_WatermarkMonotonic ==
    [][\A ns \in DOMAIN State :
         ns \in DOMAIN State' /\ State'[ns] >= State[ns]]_vars

\* C4 as claimed: when the watermark is advanced to a record's bookmark,
\* that record has already been emitted.
C4_EmitBeforeAdvance ==
    (status = "running" /\ pc = "update_state") => TopRec(Ns, row) \in emitted

\* C4, amended: the in-memory watermark is advanced to a record's bookmark
\* immediately before the record is emitted, in flat sync and in every ticket
\* pass; what follows the emission is the persisting: a watermark that the
\* run has persisted with a new value is the bookmark of a record emitted
\* before that write_state.
C4_AdvanceThenEmitThenPersist ==
    /\ pc = "write_record" =>
          /\ Ns \in DOMAIN State
          /\ State[Ns] = Bookmark(Ns, row)
          /\ TopRec(Ns, row) \notin emitted
    /\ \A ns \in DOMAIN persisted :
          (ns \notin DOMAIN loaded \/ persisted[ns] # loaded[ns]) =>
              \E r \in emitted :
                  IsTopLevel(r) /\ RecNs(r) = ns /\ RecBm(r) = persisted[ns]

\* a ticket whose bookmark the watermark already holds, not yet emitted, and
\* an earlier ticket emitted and persisted
C4_Witness ==
    /\ status = "running"
    /\ pc = "write_record"
    /\ IsTickets
    /\ row = 2
    /\ State[Ns] = Bookmark(Ns, 2)
    /\ TopRec(Ns, 2) \notin emitted
    /\ TopRec(Ns, 1) \in emitted
    /\ Ns \in DOMAIN persisted
    /\ persisted[Ns] = Bookmark(Ns, 1)
    /\ (Ns \notin DOMAIN loaded \/ loaded[Ns] # persisted[Ns])

C10_Step ==
    (\E e \in subErrors' \ subErrors : e[4] = 403) =>
        /\ status' = "running"
        /\ pc' = step_after(pc, "tickets")
        /\ emitted' = emitted
        /\ State' = State

\* every sub-record of the sub-resource that passes the start filter is emitted
SubEmitted(ns, i, kind) ==
    /\ SubKey(ns, i, kind) \in DOMAIN api
    /\ \A j \in 1..Len(api[SubKey(ns, i, kind)]) :
          passes_filter(api[SubKey(ns, i, kind)][j], get_start(loaded, ns)) =>
              Rec(kind, ns, i, j, api[SubKey(ns, i, kind)][j]) \in emitted

C10_State ==
    \* nothing of a sub-resource that answered 403 is emitted for that ticket
    /\ \A e \in subErrors :
          e[4] = 403 =>
              \A r \in emitted :
                  ~(RecStream(r) = e[3] /\ RecNs(r) = e[1] /\ RecRow(r) = e[2])
    \* an emitted ticket has every sub-resource emitted or skipped on an error,
    \* and its watermark advanced
    /\ \A t \in emitted :
          RecStream(t) = "tickets" =>
              /\ \A kind \in SubResources :
                    \/ SubEmitted(RecNs(t), RecRow(t), kind)
                    \/ \E e \in subErrors :
                          e[1] = RecNs(t) /\ e[2] = RecRow(t) /\ e[3] = kind
              /\ RecNs(t) \in DOMAIN State
              /\ State[RecNs(t)] >= RecBm(t)
    \* a run that completes has emitted every ticket the API served
    /\ (status = "completed" /\ "tickets" \in selected_streams) =>
          \A ns \in TicketNamespaces :
              /\ ListKey(ns) \in DOMAIN api
              /\ \A i \in 1..Len(api[ListKey(ns)]) :
                    updated_since(Bookmark(ns, i), get_start(loaded, ns)) =>
                        TopRec(ns, i) \in emitted

\* C10: a 403 from a sub-resource of a ticket does not end the run: the
\* step that receives it goes on to the next statement without emitting
\* anything; the other sub-resources of the ticket are still fetched and
\* emitted, the ticket is emitted, the watermark is advanced and the tickets
\* that follow are processed; nothing of the refused sub-resource is emitted
\* for that ticket.
C10_SubResourceIsolation == []C10_State /\ [][C10_Step]_vars

\* satisfaction_ratings answered 403 for the first ticket; its time entry and
\* the ticket were emitted, and so was the ticket after it
C10_Witness ==
    /\ status = "completed"
    /\ \E e \in subErrors :
          /\ e[4] = 403
          /\ e[3] = "satisfaction_ratings"
          /\ e[2] = 1
          /\ Len(api[ListKey(e[1])]) >= 2
          /\ TopRec(e[1], 1) \in emitted
          /\ TopRec(e[1], 2) \in emitted
          /\ \E r \in emitted :
                RecStream(r) = "time_entries" /\ RecNs(r) = e[1] /\ RecRow(r) = 1

(***************************************************************************)
(* Specification of the run driver: any set of selected entities, every    *)
(* listing of the API holding one record and no ticket any sub-record.     *)
(***************************************************************************)
AllNamespaces == UNION {NamespacesOf(Order[i]) : i \in 1..6}

OneRecordEach ==
    [k \in {ListKey(ns) : ns \in AllNamespaces}
         \cup {SubKey(ns, 1, kind) : ns \in TicketNamespaces, kind \in SubResources}
       |-> IF k[3] = "list" THEN <<MaxTime>> ELSE <<>>]

InitDriver ==
    /\ IdleRequest
    /\ IdlePaginate
    /\ IdleTransform
    /\ selected_streams \in SUBSET {Order[i] : i \in 1..6}
    /\ State = EmptyFn
    /\ persisted = State
    /\ loaded = State
    /\ api = OneRecordEach
    /\ emitted = {}
    /\ subErrors = {}
    /\ faults = 0
    /\ status = "running"
    /\ Reset
    /\ resumed = FALSE
    /\ prevStatus = "none"
    /\ prevNs = "none"
    /\ prevStart = 0
    /\ prevEmitted = {}
    /\ failure = 0
    /\ written = 0
    /\ synced = <<>>

SpecDriver == InitDriver /\ [][Next]_vars

\* the run has ended on an exception: the process takes no further step
Halted == [][status \notin {"exit1", "raised"}]_vars

C11_Step ==
    (pc \in SubResources /\ faults' = faults + 1) =>
        IF \E e \in subErrors' \ subErrors :
               e[4] = 403 \/ (e[4] = 404 /\ e[3] = "time_entries")
        THEN /\ status' = "running"
             /\ pc' = IF pc = "conversations" THEN "satisfaction_ratings"
                      ELSE IF pc = "satisfaction_ratings" THEN "time_entries"
                      ELSE "update_state"
        ELSE /\ status' \in {"exit1", "raised"}
             /\ TopRec(Ns, row) \notin emitted'
             /\ State' = State

C11_State ==
    /\ (status \in {"exit1", "raised"} /\ pc \in SubResources) =>
          /\ TopRec(Ns, row) \notin emitted
          /\ State = persisted
          /\ \A r \in emitted : RecNs(r) = Ns => RecRow(r) <= row
          /\ synced[Len(synced)] = Ns
          /\ \A r \in emitted : \E k \in 1..Len(synced) : synced[k] = RecNs(r)
    /\ status = "completed" =>
          \A e \in subErrors :
              /\ e[4] = 403 \/ (e[4] = 404 /\ e[3] = "time_entries")
              /\ TopRec(e[1], e[2]) \in emitted

\* C11: an HTTP 404 from time_entries is recovered like a 403 (the block is
\* left, the ticket is emitted, the run goes on); a 404 from conversations or
\* satisfaction_ratings, and every error other than 403 from any
\* sub-resource, ends the run: the ticket in progress is not emitted, the
\* watermark is not advanced to it, and no later ticket, pass or entity is
\* processed.
C11_Only404OnTimeEntries == []C11_State /\ [][C11_Step]_vars /\ Halted

\* conversations of the second ticket answered 404 and the run ended with
\* exit status 1, the first ticket emitted and persisted
C11_Witness ==
    /\ status = "exit1"
    /\ failure = 404
    /\ pc = "conversations"
    /\ row = 2
    /\ <<Ns, 2, "conversations", 404>> \in subErrors
    /\ TopRec(Ns, 1) \in emitted
    /\ TopRec(Ns, 2) \notin emitted
    /\ persisted[Ns] = Bookmark(Ns, 1)

C12_Step ==
    (pc = "list" /\ faults' = faults + 1) =>
        /\ status' \in {"exit1", "raised"}
        /\ (failure' >= 400 /\ failure' < 500) => status' = "exit1"
        /\ emitted' = emitted
        /\ persisted' = persisted
        /\ synced' = synced

C12_State ==
    (status = "exit1" /\ pc = "list") =>
        /\ failure >= 400
        /\ synced[Len(synced)] = Ns
        /\ \A r \in emitted : \E k \in 1..Len(synced) : synced[k] = RecNs(r)
        /\ \A k \in DOMAIN api : \E j \in 1..Len(synced) : synced[j] = k[1]

\* C12: a 4xx answer to a request of a top-level listing (a ticket pass or a
\* flat entity) ends the run with exit status 1: the failing step emits
\* nothing and persists nothing, nothing happens after it, and no namespace
\* after the one in progress is synced.
C12_ListingAbort == []C12_State /\ [][C12_Step]_vars /\ Halted

\* the listing of the second ticket pass answered 401 after the first pass
\* had emitted a ticket
C12_Witness ==
    /\ status = "exit1"
    /\ failure = 401
    /\ pc = "list"
    /\ synced = <<"tickets", "tickets_deleted">>
    /\ \E r \in emitted : RecStream(r) = "tickets" /\ RecNs(r) = "tickets"

\* a record of the sub-resource has been emitted for the ticket in progress
HasSub(kind) ==
    \E r \in emitted : RecStream(r) = kind /\ RecNs(r) = Ns /\ RecRow(r) = row

\* the block of the sub-resource has been left for the ticket in progress
SubDone(kind) ==
    \/ SubKey(Ns, row, kind) \in DOMAIN api
    \/ \E e \in subErrors : e[1] = Ns /\ e[2] = row /\ e[3] = kind

TicketsEmitted == {r \in emitted : RecStream(r) = "tickets"}

FlatDone == {i \in 1..6 : i < ent /\ Order[i] # "tickets" /\ Order[i] \in selected_streams}

\* C13: in every ticket pass a ticket goes through conversations,
\* satisfaction ratings, time entries, the advance of the pass's watermark,
\* the emission of the ticket and the persisting of the state, in this order;
\* the state is persisted once per ticket, so only the ticket in progress has
\* emitted sub-records without a persisted watermark that covers it.
C13_TicketOrder ==
    IsTickets =>
        /\ pc = "conversations" =>
              /\ ~HasSub("satisfaction_ratings") /\ ~HasSub("time_entries")
              /\ TopRec(Ns, row) \notin emitted
              /\ State = persisted
        /\ pc = "satisfaction_ratings" =>
              /\ SubDone("conversations") /\ ~HasSub("time_entries")
              /\ TopRec(Ns, row) \notin emitted
              /\ State = persisted
        /\ pc = "time_entries" =>
              /\ SubDone("conversations") /\ SubDone("satisfaction_ratings")
              /\ TopRec(Ns, row) \notin emitted
              /\ State = persisted
        /\ pc \in {"update_state", "write_record", "write_state"} =>
              \A kind \in SubResources : SubDone(kind)
        /\ pc = "update_state" => TopRec(Ns, row) \notin emitted /\ State = persisted
        /\ pc = "write_record" =>
              /\ State[Ns] = Bookmark(Ns, row)
              /\ TopRec(Ns, row) \notin emitted
        /\ pc = "write_state" =>
              /\ State[Ns] = Bookmark(Ns, row)
              /\ TopRec(Ns, row) \in emitted
        /\ pc \in {"list", "row"} => State = persisted
        /\ written = Cardinality(TicketsEmitted) - (IF pc = "write_state" THEN 1 ELSE 0)
                         + Cardinality(FlatDone)
        /\ \A r \in emitted :
              (RecNs(r) \in TicketNamespaces
                 /\ ~(pc \in SubResources \cup {"update_state", "write_record", "write_state"}
                        /\ RecNs(r) = Ns /\ RecRow(r) = row)) =>
                  /\ TopRec(RecNs(r), RecRow(r)) \in emitted
                  /\ RecNs(r) \in DOMAIN persisted
                  /\ persisted[RecNs(r)] >= Bookmark(RecNs(r), RecRow(r))

\* the second ticket of a pass is about to be persisted, a conversation of
\* one of the two tickets emitted, the state written once so far
C13_Witness ==
    /\ status = "running"
    /\ IsTickets
    /\ pc = "write_state"
    /\ row = 2
    /\ written = 1
    /\ TopRec(Ns, 1) \in emitted
    /\ TopRec(Ns, 2) \in emitted
    /\ persisted[Ns] = Bookmark(Ns, 1)
    /\ \E r \in emitted : RecStream(r) = "conversations"

\* the syncs of a run over the selected entities, in the order of the claim
RECURSIVE Plan(_, _)
Plan(names, sel) ==
    IF names = <<>> THEN <<>>
    ELSE (IF Head(names) \notin sel THEN <<>>
          ELSE IF Head(names) = "tickets"
          THEN <<"tickets", "tickets_deleted", "tickets_spam">>
          ELSE <<Head(names)>>)
         \o Plan(Tail(names), sel)

FixedPlan ==
    Plan(<<"tickets", "contacts", "agents", "roles", "groups", "companies">>, selected_streams)

\* C14: the syncs a run starts are, in this order and once each, those of
\* the selected entities among tickets (unfiltered, deleted, spam), contacts,
\* agents, roles, groups, companies; a run that completes has started them
\* all; records are emitted only to the streams of selected entities, and
\* only under namespaces whose sync was started.
C14_FixedOrder ==
    /\ Len(synced) <= Len(FixedPlan)
    /\ synced = SubSeq(FixedPlan, 1, Len(synced))
    /\ status = "completed" => synced = FixedPlan
    /\ \A r \in emitted :
          /\ \E k \in 1..Len(synced) : synced[k] = RecNs(r)
          /\ StreamOf(RecNs(r)) \in selected_streams
          /\ RecStream(r) \in {StreamOf(RecNs(r))}
                 \cup (IF RecNs(r) \in TicketNamespaces THEN SubResources ELSE {})

\* companies, contacts and tickets selected: the run completed after the
\* three ticket passes, then contacts, then companies
C14_Witness ==
    /\ status = "completed"
    /\ selected_streams = {"companies", "contacts", "tickets"}
    /\ synced = <<"tickets", "tickets_deleted", "tickets_spam", "contacts", "companies">>
    /\ Cardinality(emitted) = 5

(***************************************************************************)
(* Specification of the sync of one flat entity whose listing may fill a   *)
(* page: a later page can fail after records of the first were emitted.    *)
(***************************************************************************)
FlatEntities == {Order[i] : i \in 1..6} \ {"tickets"}

Uniform(n, t) == [i \in 1..n |-> t]

\* what the listing holds: a few records, or a full page of records of one
\* timestamp followed by at most one more
PagedData ==
    SeqsUpTo(MaxRecords)
        \cup {Uniform(PER_PAGE, t) \o d : t \in Times, d \in SeqsUpTo(1)}

InitPaged ==
    /\ IdleRequest
    /\ IdlePaginate
    /\ IdleTransform
    /\ \E e \in FlatEntities :
          /\ selected_streams = {e}
          /\ State \in {f \in PartialFns({e}) : Cardinality(DOMAIN f) <= MaxStored}
          /\ \E data \in PagedData : api = (ListKey(e) :> data)
    /\ persisted = State
    /\ loaded = State
    /\ emitted = {}
    /\ subErrors = {}
    /\ faults = 0
    /\ status = "running"
    /\ Reset
    /\ resumed = FALSE
    /\ prevStatus = "none"
    /\ prevNs = "none"
    /\ prevStart = 0
    /\ prevEmitted = {}
    /\ failure = 0
    /\ written = 0
    /\ synced = <<>>

NextPaged ==
    \/ DoSyncNext /\ UNCHANGED <<varsRequest, varsPaginate, varsTransform>>
    \/ DoSyncDone /\ UNCHANGED <<varsRequest, varsPaginate, varsTransform>>
    \/ ListRequest /\ UNCHANGED <<varsRequest, varsPaginate, varsTransform>>
    \/ NextRow /\ UNCHANGED <<varsRequest, varsPaginate, varsTransform>>
    \/ EndOfPage /\ UNCHANGED <<varsRequest, varsPaginate, varsTransform>>
    \/ UpdateState /\ UNCHANGED <<varsRequest, varsPaginate, varsTransform>>
    \/ WriteRecord /\ UNCHANGED <<varsRequest, varsPaginate, varsTransform>>
    \/ WriteState /\ UNCHANGED <<varsRequest, varsPaginate, varsTransform>>

SpecPaged == InitPaged /\ [][NextPaged]_vars

\* the watermark a state holds for a namespace, if any
Entry(S, ns) == IF ns \in DOMAIN S THEN <<S[ns]>> ELSE <<>>

\* the namespaces whose sync has run to its end
Finished ==
    {synced[k] : k \in {j \in 1..Len(synced) : j < Len(synced) \/ pc = "do_sync"}}

\* C15: flat sync persists the state once per entity, after the last record
\* of the listing has been processed; while the entity is being synced, and
\* when its sync has failed, the persisted watermark of the entity is the one
\* from before it started, whatever was emitted.
C15_FlatPersistsOnce ==
    /\ written = Cardinality(FlatDone)
    /\ pc = "do_sync" => persisted = State
    /\ (pc # "do_sync" /\ ~IsTickets) =>
          /\ Entry(persisted, Ns) = Entry(loaded, Ns)
          /\ \A ns \in (DOMAIN State \cup DOMAIN persisted) \ {Ns} :
                Entry(persisted, ns) = Entry(State, ns)
    /\ (pc = "write_state" /\ ~IsTickets) =>
          \A i \in 1..Len(api[ListKey(Ns)]) :
              Bookmark(Ns, i) >= start => TopRec(Ns, i) \in emitted

\* the request of the second page failed after the 100 records of the first
\* were emitted: the watermark moved in memory, the state file did not
C15_Witness ==
    /\ status = "exit1"
    /\ pc = "list"
    /\ page = 2
    /\ Cardinality(emitted) = PER_PAGE
    /\ written = 0
    /\ persisted = loaded
    /\ Entry(State, Ns) # Entry(persisted, Ns)

\* the start of a namespace in this process: the stored watermark or the default
StartOf(ns) == get_start(loaded, ns)

\* C16: the threshold of an entity sync or ticket pass is the start captured
\* when it began and stays the same while the watermark advances; a
\* sub-record of a ticket, and a record of a flat entity whose sync has run
\* to its end, is emitted if and only if its bookmark is >= that threshold;
\* no flat record below it is emitted or becomes the watermark.
C16_StartFilter ==
    /\ (pc # "do_sync") => start = StartOf(Ns)
    /\ \A k \in DOMAIN api :
          IF k[3] = "list"
          THEN k[1] \notin TicketNamespaces =>
                   \A i \in 1..Len(api[k]) :
                       /\ TopRec(k[1], i) \in emitted => api[k][i] >= StartOf(k[1])
                       /\ (k[1] \in Finished /\ api[k][i] >= StartOf(k[1])) =>
                              TopRec(k[1], i) \in emitted
          ELSE \A j \in 1..Len(api[k]) :
                   Rec(k[3], k[1], k[2], j, api[k][j]) \in emitted
                       <=> api[k][j] >= StartOf(k[1])
    /\ \A r \in emitted : RecNs(r) \notin TicketNamespaces => RecBm(r) >= StartOf(RecNs(r))
    /\ \A ns \in DOMAIN State :
          (ns \notin TicketNamespaces /\ Entry(State, ns) # Entry(loaded, ns)) =>
              State[ns] >= StartOf(ns)

\* a run over one flat entity has completed: a record at the threshold was
\* emitted and became the watermark, a record below it was not emitted
C16_Witness ==
    /\ status = "completed"
    /\ \E k \in DOMAIN api :
          /\ k[3] = "list"
          /\ k[1] \notin TicketNamespaces
          /\ Len(api[k]) >= 2
          /\ api[k][1] < StartOf(k[1])
          /\ api[k][2] = StartOf(k[1])
          /\ TopRec(k[1], 1) \notin emitted
          /\ TopRec(k[1], 2) \in emitted
          /\ k[1] \notin DOMAIN loaded
          /\ State[k[1]] = api[k][2]

C17_State ==
    /\ (pc # "do_sync") =>
          start = IF Ns \in DOMAIN loaded THEN loaded[Ns]
                  ELSE IF Ns \in {"contacts", "companies", "agents"} THEN Epoch
                  ELSE start_date
    /\ \A i, j \in 1..Len(synced) : synced[i] = synced[j] => i = j
    /\ (status = "completed" /\ "tickets" \in selected_streams) =>
          SubSeq(synced, 1, 3) = <<"tickets", "tickets_deleted", "tickets_spam">>

C17_Step ==
    pc # "do_sync" =>
        \A ns \in (DOMAIN State \cup DOMAIN State') \ {Ns} :
            Entry(State', ns) = Entry(State, ns)

\* C17: the start of a namespace is its stored watermark if the state file
\* holds one, else the epoch for contacts, companies and agents and the
\* configured start date for every other namespace; the ticket passes use the
\* namespaces tickets, tickets_deleted and tickets_spam, and a sync changes
\* no watermark but that of its own namespace.
C17_StartingPoint == []C17_State /\ [][C17_Step]_vars

\* the spam pass runs from the watermark stored for tickets_spam while the
\* unfiltered pass has set a different watermark for tickets
C17_Witness ==
    /\ status = "running"
    /\ IsTickets
    /\ pass = 3
    /\ pc = "write_state"
    /\ "tickets_spam" \in DOMAIN loaded
    /\ start = loaded["tickets_spam"]
    /\ "tickets" \in DOMAIN State
    /\ State["tickets"] # start
    /\ State["tickets_spam"] # State["tickets"]

(***************************************************************************)
(* Claims about a run and the run that resumes from its state              *)
(***************************************************************************)

\* C2 as claimed: a second run started from the state a completed run
\* persisted, against the same data, emits no record.
C2_SecondRunEmitsNothing ==
    (resumed /\ prevStatus = "completed") => emitted = {}

\* C2, amended: such a second run emits no record whose bookmark is below
\* the persisted watermark of its namespace; a record whose bookmark is >=
\* that watermark passes the filter again, so when the second run completes,
\* every namespace the first run wrote records for has had the record that
\* set its watermark emitted a second time.
C2_SecondRunEmitsFromWatermark ==
    (resumed /\ prevStatus = "completed") =>
        /\ \A r \in emitted : RecBm(r) >= get_start(loaded, RecNs(r))
        /\ status = "completed" =>
              \A p \in prevEmitted :
                  IsTopLevel(p) =>
                      \E r \in emitted :
                          /\ IsTopLevel(r)
                          /\ RecNs(r) = RecNs(p)
                          /\ RecBm(r) = loaded[RecNs(p)]

\* the second run has completed: it emitted again the record that set the
\* watermark, and left out a record of the first run that is below it
C2_Witness ==
    /\ resumed
    /\ prevStatus = "completed"
    /\ status = "completed"
    /\ emitted # {}
    /\ \E p \in prevEmitted : p \notin emitted

\* C5: after a run has failed, every record of the sync in progress that it
\* had still to emit (a row of the listing that passes its start and was not
\* emitted, and every sub-record of such a ticket that passes its start and
\* was not emitted) passes the start filter of the run started from the state
\* the failed run left.
C5_NoRecordLostOnResume ==
    (resumed /\ prevStatus # "completed" /\ prevNs # "none"
       /\ ListKey(prevNs) \in DOMAIN api) =>
        LET since == get_start(loaded, prevNs) IN
        \A i \in 1..Len(api[ListKey(prevNs)]) :
            (Bookmark(prevNs, i) >= prevStart /\ TopRec(prevNs, i) \notin prevEmitted) =>
                /\ Bookmark(prevNs, i) >= since
                /\ \A kind \in SubResources :
                      SubKey(prevNs, i, kind) \in DOMAIN api =>
                          \A j \in 1..Len(api[SubKey(prevNs, i, kind)]) :
                              LET bm == api[SubKey(prevNs, i, kind)][j] IN
                              (bm >= prevStart
                                 /\ Rec(kind, prevNs, i, j, bm) \notin prevEmitted)
                              => bm >= since

(***************************************************************************)
(* Specification of the request executor: one call, the server answering   *)
(* every send with any response.                                           *)
(***************************************************************************)
InitRequest == IdleRequest /\ IdlePaginate /\ IdleTransform /\ IdleSync

NextRequest ==
    \/ RequestCall /\ UNCHANGED <<varsPaginate, varsTransform, varsSync>>
    \/ RequestSend /\ UNCHANGED <<varsPaginate, varsTransform, varsSync>>

SpecRequest == InitRequest /\ [][NextRequest]_vars

(***************************************************************************)
(* Specification of the paginator: one call over an endpoint holding N     *)
(* records, every page request succeeding.                                 *)
(***************************************************************************)
InitPaginate ==
    /\ IdleRequest
    /\ IdleTransform
    /\ IdleSync
    /\ \E n \in 0..MaxPaged : pgData = [i \in 1..n |-> i]
    /\ pgState = "request"
    /\ pgPage = 1
    /\ pgBuf = <<>>
    /\ pgPos = 0
    /\ pgYielded = <<>>
    /\ pgRequests = <<>>

NextPaginate ==
    \/ PaginateRequest /\ UNCHANGED <<varsRequest, varsTransform, varsSync>>
    \/ PaginateYield /\ UNCHANGED <<varsRequest, varsTransform, varsSync>>
    \/ PaginateNext /\ UNCHANGED <<varsRequest, varsTransform, varsSync>>

SpecPaginate == InitPaginate /\ [][NextPaginate]_vars

(***************************************************************************)
(* Specification of transform_dict: one call on any dict of custom fields. *)
(***************************************************************************)
InitTransform ==
    /\ IdleRequest
    /\ IdlePaginate
    /\ IdleSync
    /\ tdIn \in Dicts
    /\ tdKeyKey \in {"name", "question"}
    /\ tdForce \in BOOLEAN
    /\ tdOut = <<>>
    /\ tdState = "loop"

NextTransform ==
    \/ TransformItem /\ UNCHANGED <<varsRequest, varsPaginate, varsSync>>
    \/ TransformReturn /\ UNCHANGED <<varsRequest, varsPaginate, varsSync>>

SpecTransform == InitTransform /\ [][NextTransform]_vars

\* the text Python's str() gives for the booleans, lower-cased
LowerLiteral(v) == IF v = Bool(TRUE) THEN <<"t", "r", "u", "e">> ELSE <<"f", "a", "l", "s", "e">>

\* C18: the list returned holds one {name, value} entry per key of the map;
\* with force_str every value is a string, true and false are "true" and
\* "false", and a string value keeps its content; without force_str every
\* value is returned as it is.
C18_TransformDict ==
    tdState = "done" =>
        /\ Len(tdOut) = Len(tdIn)
        /\ \A i \in 1..Len(tdIn) :
              /\ tdOut[i].key = tdIn[i][1]
              /\ tdOut[i].key_field = tdKeyKey
              /\ IF tdForce
                 THEN /\ tdOut[i].value.type = "str"
                      /\ tdOut[i].value.text =
                            IF tdIn[i][2].type = "bool" THEN LowerLiteral(tdIn[i][2])
                            ELSE tdIn[i][2].text
                 ELSE tdOut[i].value = tdIn[i][2]

(***************************************************************************)
(* Claims about the paginator                                              *)
(***************************************************************************)

\* C6: for an endpoint holding N records served in pages of 100, the pages
\* requested are 1, 2, 3, ... with no gap or repeat, the rows yielded are the
\* N records once each in the order received, the paginator stops after the
\* first page shorter than 100 and so makes exactly N div 100 + 1 requests.
C6_Pagination ==
    /\ \A i \in 1..Len(pgRequests) : pgRequests[i] = i
    /\ Len(pgRequests) <= (Len(pgData) \div PER_PAGE) + 1
    /\ Len(pgYielded) <= Len(pgData)
    /\ pgYielded = SubSeq(pgData, 1, Len(pgYielded))
    /\ pgState = "request" => Len(pgYielded) = (pgPage - 1) * PER_PAGE
    /\ pgState = "done" =>
          /\ pgYielded = pgData
          /\ Len(pgRequests) = (Len(pgData) \div PER_PAGE) + 1
          /\ Len(pgBuf) < PER_PAGE

C6_Witness ==
    /\ pgState = "done"
    /\ Len(pgData) = 250
    /\ Len(pgYielded) = 250
    /\ pgRequests = <<1, 2, 3>>

(***************************************************************************)
(* Claims about the request executor                                       *)
(***************************************************************************)

\* C7: one call of request sends at most 5 attempts that end in a transport
\* or server (5xx) error, and the 5th such failure raises the error to the
\* caller, whatever throttled responses come in between.
C7_AtMostFiveFailures ==
    /\ reqFailed <= max_tries
    /\ reqFailed = max_tries => reqResult = "raised"

\* C8: a response with a status in 400..499 and no Retry-After header is
\* never retried: the send that receives it ends the call with that error,
\* whatever is left of the backoff budget.
C8_NoRetryOn4xx ==
    [][(reqSent' = reqSent + 1 /\ Is4xx(reqLast') /\ ~IsThrottle(reqLast'))
         => (reqResult' = "raised" /\ reqError' = reqLast' /\ reqFrames' = <<>>)]_vars

\* a 4xx that arrives while backoff tries remain: after a failed try, or
\* inside the re-issue that follows a throttled response
C8_Witness ==
    /\ reqResult = "raised"
    /\ Is4xx(reqError)
    /\ reqFailed = 2
    /\ reqThrottled = 1
    /\ reqSent = 4

C9_ThrottleStep ==
    (reqSent' = reqSent + 1 /\ IsThrottle(reqLast')) =>
        /\ reqResult' = "pending"
        /\ Len(reqFrames') = Len(reqFrames) + 1
        /\ SubSeq(reqFrames', 1, Len(reqFrames)) = reqFrames
        /\ reqFrames'[Len(reqFrames')] = 1

C9_Budget ==
    /\ reqSentArgs \subseteq {reqArgs}
    /\ (reqResult = "raised" /\ IsFailure(reqError)) => reqSince >= max_tries
    /\ (reqResult = "returned" /\ reqFailed = 0) => reqSent = reqThrottled + 1

\* C9: a response with a Retry-After header makes the executor re-issue the
\* same request (same url and params) without touching the backoff try
\* counters: the re-issue starts with a full budget, so the call is never
\* raised as a transport/server error before 5 failing attempts have followed
\* the last throttled response, and a server that throttles once and then
\* succeeds is sent exactly two requests and the call returns.
C9_ThrottleKeepsBudget == []C9_Budget /\ [][C9_ThrottleStep]_vars

C9_Witness ==
    /\ reqResult = "returned"
    /\ reqThrottled = 1
    /\ reqFailed = 0
    /\ reqSent = 2

C19_Step ==
    (reqSent' = reqSent + 1 /\ IsThrottle(reqLast')) =>
        /\ reqResult' = "pending"
        /\ reqError' = reqError
        /\ reqFailed' = reqFailed
        /\ reqArgs' = reqArgs

C19_State ==
    /\ reqResult = "raised" => (reqError = reqLast /\ ~IsThrottle(reqError))
    /\ reqResult = "returned" => (reqLast.status = 200 /\ ~IsThrottle(reqLast))
    /\ reqSentArgs \subseteq {reqArgs}

\* C19: a response with a Retry-After header is never raised as an error,
\* whatever its status (200, 4xx such as 429, 5xx): the call stays pending
\* and the same request is sent again; an error that ends the call is always
\* that of a response without the header, so the rule that gives up on 4xx
\* only ever applies to such a response.
C19_ThrottleBeforeStatus == []C19_State /\ [][C19_Step]_vars

\* a 401 with a Retry-After header was received by the first send: the call
\* is still pending, with no failure counted
C19_Witness ==
    /\ reqResult = "pending"
    /\ reqLast = [status |-> 401, retry_after |-> TRUE]
    /\ reqSent = 1
    /\ reqFailed = 0
    /\ reqFrames = <<1, 1>>

(***************************************************************************)
(* Specification for termination: either one call of the request executor  *)
(* against a server that throttles at most MaxThrottled times, or one run  *)
(* of the tap over an API holding at most MaxRecords records.  The process *)
(* is sequential and takes its next step whenever it has one.              *)
(***************************************************************************)
InitLive == Init \/ InitRequest

NextLive ==
    \/ Next
    \/ status = "idle" /\ NextRequest

SpecLive == InitLive /\ [][NextLive]_vars /\ WF_vars(NextLive)

\* C20: a call of the request executor that is pending eventually returns a
\* response or raises an error, the server sending a Retry-After header on
\* finitely many responses; a run of the tap eventually ends, by completing
\* or by an exception, every endpoint holding finitely many records.
C20_Terminates ==
    /\ (reqResult = "pending") ~> (reqResult \in {"returned", "raised"})
    /\ (status = "running") ~> (status \in {"completed", "exit1", "raised"})

\* a call that returned after the server had throttled as often as it may
\* and more than max_tries sends had failed
C20_Witness ==
    /\ reqResult = "returned"
    /\ reqThrottled = MaxThrottled
    /\ reqFailed > max_tries

====
